---- MODULE Spec2Model ----
(***************************************************************************)
(* Model of the tow-truck dispatch backend (backend/tow_truck_app).        *)
(*                                                                         *)
(* The database tables are the state; every HTTP handler is a sequence of  *)
(* database operations.  No handler opens a transaction, so each database  *)
(* operation commits on its own (autocommit) and two requests interleave   *)
(* between any two of them.  The two order-updating handlers are therefore *)
(* modelled one database operation per step, on a pool of request slots.   *)
(***************************************************************************)
EXTENDS Integers, Sequences, FiniteSets, TLC

\* ------------------------------------------------------------ bounds
\* Update requests (update-status and order-detail) the server takes in a run.
MaxRequests == 2

\* ------------------------------------------------------ reference data
None == "NULL"
\* A field that the request body does not carry.
Absent == "ABSENT"

\* client1, driver1 and operator1 are the demo accounts of create_sample_data;
\* driver2 registered afterwards and has no tow truck.
Users == {"client1", "driver1", "driver2", "operator1"}

\* Every account: the users above and admin1, a staff account (is_staff) that
\* was registered with the user type CLIENT.
Accounts == Users \cup {"admin1"}

user_type ==
    [u \in Accounts |->
        CASE u \in {"client1", "admin1"} -> "CLIENT"
          [] u \in {"driver1", "driver2"} -> "DRIVER"
          [] OTHER -> "OPERATOR"]

\* No demo account is a staff account.
is_staff == [u \in Accounts |-> u = "admin1"]

\* The demo truck of create_sample_data, driven by driver1.
TowTrucks == {"t1"}

\* Every truck: the demo truck and t2, a truck that has no driver yet.
Fleet == TowTrucks \cup {"t2"}

truck_driver == [t \in Fleet |-> IF t = "t1" THEN "driver1" ELSE None]

STATUS_CHOICES ==
    {"PENDING", "CONFIRMED", "ASSIGNED", "IN_PROGRESS", "COMPLETED", "CANCELLED"}

\* Values a request may give to the decimal and date fields.
Prices == {"100.00"}
Stamps == {"T1"}

\* The ORDER_* rows create_sample_data loads into NotificationType.
SampleNotificationTypes ==
    {"ORDER_CREATED", "ORDER_CONFIRMED", "ORDER_ASSIGNED", "ORDER_IN_PROGRESS",
     "ORDER_COMPLETED", "ORDER_CANCELLED"}

\* The NotificationType table is reference data kept in the admin site: here
\* the sample rows less two that were deleted there.
NotificationTypeTable ==
    SampleNotificationTypes \ {"ORDER_ASSIGNED", "ORDER_COMPLETED"}

\* The demo order of create_sample_data.
DemoOrder ==
    [client |-> "client1", status |-> "PENDING", final_price |-> None,
     completed_at |-> None, tow_truck |-> None]

\* Order ids a request may name: the demo order and an id that no order has.
OrderIds == {1, 2}

\* The server's workers: each handles one request at a time.
Reqs == {"r1", "r2"}

VARIABLES
    orders,              \* Order table: sequence, the id is the index
    history,             \* OrderStatusHistory table, in creation order
    notifications,       \* Notification table, in creation order
    notification_types,  \* codes present in the NotificationType table
    pc,                  \* per request slot: position in its handler
    req,                 \* per request slot: the handler's local variables
    served,              \* requests taken so far
    trucks,              \* TowTruck table: coordinate and timestamp per truck
    groups,              \* channel layer: the (group, connection) memberships
    conn,                \* per WebSocket connection: state of its consumer
    ratings,             \* Rating table, in creation order
    tickets,             \* SupportTicket table: sequence, the id is the index
    messages             \* SupportMessage table, in creation order

vars ==
    <<orders, history, notifications, notification_types, pc, req, served,
      trucks, groups, conn, ratings, tickets, messages>>

\* The tables and connections the order-updating handlers do not touch.
locationVars == <<trucks, groups, conn>>
supportVars == <<ratings, tickets, messages>>

\* ------------------------------------------------------------ helpers
NoOrder ==
    [client |-> None, status |-> None, final_price |-> None,
     completed_at |-> None, tow_truck |-> None]

NoData ==
    [status |-> Absent, final_price |-> Absent, completed_at |-> Absent,
     tow_truck |-> Absent]

NoReq ==
    [view |-> None, user |-> None, order |-> 0, data |-> NoData,
     instance |-> NoOrder, old_status |-> None, code |-> 0]

\* tow_truck__driver=user
DrivenBy(o, u) ==
    /\ orders[o].tow_truck # None
    /\ truck_driver[orders[o].tow_truck] = u

\* A get_queryset that does not filter a driver's orders by tow_truck__driver.
UpdateStatusQuerysetUnfiltered(u) ==
    IF user_type[u] \in {"DRIVER", "OPERATOR"} \/ is_staff[u]
    THEN 1..Len(orders)
    ELSE {}

\* OrderUpdateStatusView.get_queryset
UpdateStatusQueryset(u) ==
    IF user_type[u] = "DRIVER"
    THEN {o \in 1..Len(orders) : DrivenBy(o, u)}
    ELSE IF user_type[u] = "OPERATOR" \/ is_staff[u]
         THEN 1..Len(orders)
         ELSE {}

\* OrderDetailView.get_queryset
DetailQueryset(u) ==
    IF user_type[u] = "CLIENT"
    THEN {o \in 1..Len(orders) : orders[o].client = u}
    ELSE IF user_type[u] = "DRIVER"
         THEN {o \in 1..Len(orders) : DrivenBy(o, u)}
         ELSE IF user_type[u] = "OPERATOR" \/ is_staff[u]
              THEN 1..Len(orders)
              ELSE {}

\* Request bodies of update-status: OrderUpdateSerializer takes status,
\* final_price, completed_at and tow_truck (scheduled_time is left out of the
\* model).  Bodies that carry one field.
UpdateBodies ==
    {[NoData EXCEPT !.status = s] : s \in STATUS_CHOICES \cup {"BOGUS"}}
    \cup {[NoData EXCEPT !.final_price = p] : p \in Prices}
    \cup {[NoData EXCEPT !.completed_at = t] : t \in Stamps}
    \cup {[NoData EXCEPT !.tow_truck = t] : t \in TowTrucks \cup {None}}

\* Request bodies of the order-detail update: OrderSerializer declares
\* tow_truck read-only and lists completed_at in read_only_fields, so a value
\* sent for either is dropped; status and final_price are writable.
DetailBodies ==
    {[NoData EXCEPT !.status = s] : s \in STATUS_CHOICES \cup {"BOGUS"}}
    \cup {[NoData EXCEPT !.final_price = p] : p \in Prices}

\* The ChoiceField built from Order.STATUS_CHOICES.
IsValid(data) == data.status \in STATUS_CHOICES \cup {Absent}

Put(old, new) == IF new = Absent THEN old ELSE new

\* ModelSerializer.update for OrderUpdateSerializer: setattr of every
\* validated field on the instance.
ApplyUpdate(instance, data) ==
    [instance EXCEPT
        !.status = Put(@, data.status),
        !.final_price = Put(@, data.final_price),
        !.completed_at = Put(@, data.completed_at),
        !.tow_truck = Put(@, data.tow_truck)]

\* ModelSerializer.update for OrderSerializer: the read-only fields are not in
\* validated_data.
ApplyDetail(instance, data) ==
    [instance EXCEPT
        !.status = Put(@, data.status),
        !.final_price = Put(@, data.final_price)]

\* Statuses that _create_status_notification has a message for.
StatusMessages ==
    {"CONFIRMED", "ASSIGNED", "IN_PROGRESS", "COMPLETED", "CANCELLED"}

\* f"ORDER_{order.status}"
NotificationCode(s) ==
    CASE s = "PENDING" -> "ORDER_PENDING"
      [] s = "CONFIRMED" -> "ORDER_CONFIRMED"
      [] s = "ASSIGNED" -> "ORDER_ASSIGNED"
      [] s = "IN_PROGRESS" -> "ORDER_IN_PROGRESS"
      [] s = "COMPLETED" -> "ORDER_COMPLETED"
      [] OTHER -> "ORDER_CANCELLED"

\* The handler returns (or raises): only the response is left of the request.
Respond(r, c) ==
    /\ pc' = [pc EXCEPT ![r] = "done"]
    /\ req' = [req EXCEPT ![r] =
                [NoReq EXCEPT !.view = req[r].view, !.user = req[r].user,
                              !.order = req[r].order, !.code = c]]

\* A truck whose coordinate is not known yet: current_location_lat and
\* current_location_lon are null (known is FALSE, the numbers mean nothing).
NoLocation == [known |-> FALSE, lat |-> 0, lon |-> 0, stamp |-> 0]

\* The WebSocket connections (one LocationConsumer each).
Conns == {"c1"}

\* Channel layer groups: f"order_{order.id}" and f"tow_truck_{tow_truck.id}".
OrderGroup(o) == [order |-> o, truck |-> None]

TruckGroup(t) == [order |-> 0, truck |-> t]

NoGroup == [order |-> 0, truck |-> None]

\* A LocationConsumer before connect(): the class attributes.
NoConn ==
    [phase |-> "new", user |-> None, group |-> NoGroup, truck |-> None,
     snapshot |-> NoLocation, code |-> 0, received |-> <<>>]

\* No truck has reported a coordinate and nobody is connected.
LocationIdle ==
    /\ trucks = [t \in Fleet |-> NoLocation]
    /\ groups = {}
    /\ conn = [c \in Conns |-> NoConn]

\* No rating, no ticket and no message yet.
SupportEmpty ==
    /\ ratings = <<>>
    /\ tickets = <<>>
    /\ messages = <<>>

\* No request is in progress.
RequestsIdle ==
    /\ pc = [r \in Reqs |-> "idle"]
    /\ req = [r \in Reqs |-> NoReq]
    /\ served = 0

\* --------------------------------------------------------------- Init
\* The database after create_sample_data; the back office may already have
\* given the demo order a tow truck in the admin site (OrderAdmin).
Init ==
    /\ \E t \in TowTrucks \cup {None} :
            orders = <<[DemoOrder EXCEPT !.tow_truck = t]>>
    /\ history = <<>>
    /\ notifications = <<>>
    /\ notification_types = NotificationTypeTable
    /\ pc = [r \in Reqs |-> "idle"]
    /\ req = [r \in Reqs |-> NoReq]
    /\ served = 0
    /\ LocationIdle
    /\ SupportEmpty

\* ------------------------------------------------------------ actions
\* UpdateMixin.update of OrderUpdateStatusView: get_object() on the view's
\* queryset, then serializer.is_valid().
UpdateStatusBegin(r, u, o, data) ==
    /\ pc[r] = "idle"
    /\ served < MaxRequests
    /\ served' = served + 1
    /\ LET q == [NoReq EXCEPT !.view = "update-status", !.user = u, !.order = o]
       IN  \/ /\ o \notin UpdateStatusQueryset(u)
              /\ pc' = [pc EXCEPT ![r] = "done"]
              /\ req' = [req EXCEPT ![r] = [q EXCEPT !.code = 404]]
           \/ /\ o \in UpdateStatusQueryset(u)
              /\ ~IsValid(data)
              /\ pc' = [pc EXCEPT ![r] = "done"]
              /\ req' = [req EXCEPT ![r] = [q EXCEPT !.code = 400]]
           \/ /\ o \in UpdateStatusQueryset(u)
              /\ IsValid(data)
              /\ pc' = [pc EXCEPT ![r] = "validated"]
              /\ req' = [req EXCEPT ![r] =
                        [q EXCEPT !.data = data, !.instance = orders[o]]]
    /\ UNCHANGED <<orders, history, notifications, notification_types>>
    /\ UNCHANGED <<locationVars, supportVars>>

\* perform_update: order = self.get_object(); old_status = order.status.
\* This is a second query: `order` is another object than serializer.instance.
UpdateStatusLoad(r) ==
    /\ pc[r] = "validated"
    /\ \/ /\ req[r].order \notin UpdateStatusQueryset(req[r].user)
          /\ Respond(r, 404)
       \/ /\ req[r].order \in UpdateStatusQueryset(req[r].user)
          /\ pc' = [pc EXCEPT ![r] = "loaded"]
          /\ req' = [req EXCEPT ![r].old_status = orders[req[r].order].status]
    /\ UNCHANGED <<orders, history, notifications, notification_types, served>>
    /\ UNCHANGED <<locationVars, supportVars>>

\* perform_update: serializer.save().  Model.save() without update_fields
\* writes every column of serializer.instance, the object read in Begin.
UpdateStatusSave(r) ==
    /\ pc[r] = "loaded"
    /\ orders' = [orders EXCEPT
                    ![req[r].order] = ApplyUpdate(req[r].instance, req[r].data)]
    /\ pc' = [pc EXCEPT ![r] = "saved"]
    /\ UNCHANGED <<history, notifications, notification_types, req, served>>
    /\ UNCHANGED <<locationVars, supportVars>>

\* What `order.status` reads after serializer.save() in perform_update:
\* `order` was fetched by the second get_object() and save() updated
\* serializer.instance, so it is still the status read before the save.
OrderStatusAfterSave(r) == req[r].old_status

\* perform_update: OrderStatusHistory.objects.create(...).
UpdateStatusHistory(r) ==
    /\ pc[r] = "saved"
    /\ history' = Append(history,
            [order |-> req[r].order, old_status |-> req[r].old_status,
             new_status |-> OrderStatusAfterSave(r),
             changed_by |-> req[r].user])
    /\ pc' = [pc EXCEPT ![r] = "logged"]
    /\ UNCHANGED <<orders, notifications, notification_types, req, served>>
    /\ UNCHANGED <<locationVars, supportVars>>

\* _create_status_notification(order).
UpdateStatusNotify(r) ==
    /\ pc[r] = "logged"
    /\ LET s == OrderStatusAfterSave(r)
       IN  \/ /\ s \notin StatusMessages
              /\ UNCHANGED notifications
           \/ /\ s \in StatusMessages
              /\ NotificationCode(s) \notin notification_types
              /\ UNCHANGED notifications
           \/ /\ s \in StatusMessages
              /\ NotificationCode(s) \in notification_types
              /\ notifications' = Append(notifications,
                    [user |-> req[r].instance.client,
                     notification_type |-> NotificationCode(s),
                     related_order |-> req[r].order, is_read |-> FALSE])
    /\ Respond(r, 200)
    /\ UNCHANGED <<orders, history, notification_types, served>>
    /\ UNCHANGED <<locationVars, supportVars>>

\* A database write of perform_update raises: the request ends with a 500.
\* Nothing is rolled back, each earlier write has already been committed.
UpdateStatusFail(r) ==
    /\ pc[r] \in {"loaded", "saved", "logged"}
    /\ Respond(r, 500)
    /\ UNCHANGED <<orders, history, notifications, notification_types, served>>
    /\ UNCHANGED <<locationVars, supportVars>>

\* UpdateMixin.update of OrderDetailView: get_object(), serializer.is_valid().
DetailBegin(r, u, o, data) ==
    /\ pc[r] = "idle"
    /\ served < MaxRequests
    /\ served' = served + 1
    /\ LET q == [NoReq EXCEPT !.view = "order-detail", !.user = u, !.order = o]
       IN  \/ /\ o \notin DetailQueryset(u)
              /\ pc' = [pc EXCEPT ![r] = "done"]
              /\ req' = [req EXCEPT ![r] = [q EXCEPT !.code = 404]]
           \/ /\ o \in DetailQueryset(u)
              /\ ~IsValid(data)
              /\ pc' = [pc EXCEPT ![r] = "done"]
              /\ req' = [req EXCEPT ![r] = [q EXCEPT !.code = 400]]
           \/ /\ o \in DetailQueryset(u)
              /\ IsValid(data)
              /\ pc' = [pc EXCEPT ![r] = "detail"]
              /\ req' = [req EXCEPT ![r] =
                        [q EXCEPT !.data = data, !.instance = orders[o]]]
    /\ UNCHANGED <<orders, history, notifications, notification_types>>
    /\ UNCHANGED <<locationVars, supportVars>>

\* UpdateMixin.perform_update of OrderDetailView: serializer.save().
DetailSave(r) ==
    /\ pc[r] = "detail"
    /\ orders' = [orders EXCEPT
                    ![req[r].order] = ApplyDetail(req[r].instance, req[r].data)]
    /\ Respond(r, 200)
    /\ UNCHANGED <<history, notifications, notification_types, served>>
    /\ UNCHANGED <<locationVars, supportVars>>

\* The response has been sent; the worker takes the next request.
Finish(r) ==
    /\ pc[r] = "done"
    /\ pc' = [pc EXCEPT ![r] = "idle"]
    /\ req' = [req EXCEPT ![r] = NoReq]
    /\ UNCHANGED <<orders, history, notifications, notification_types, served>>
    /\ UNCHANGED <<locationVars, supportVars>>

Next ==
    \/ \E r \in Reqs, u \in Users, o \in OrderIds, d \in UpdateBodies :
            UpdateStatusBegin(r, u, o, d)
    \/ \E r \in Reqs : UpdateStatusLoad(r)
    \/ \E r \in Reqs : UpdateStatusSave(r)
    \/ \E r \in Reqs : UpdateStatusHistory(r)
    \/ \E r \in Reqs : UpdateStatusNotify(r)
    \/ \E r \in Reqs : UpdateStatusFail(r)
    \/ \E r \in Reqs, u \in Users, o \in OrderIds, d \in DetailBodies :
            DetailBegin(r, u, o, d)
    \/ \E r \in Reqs : DetailSave(r)
    \/ \E r \in Reqs : Finish(r)

Spec == Init /\ [][Next]_vars

\* ============================================================ claims
\* The order transition graph of the specification (section 4.2).
Terminal == {"COMPLETED", "CANCELLED"}

Successor(s) ==
    CASE s = "PENDING" -> "CONFIRMED"
      [] s = "CONFIRMED" -> "ASSIGNED"
      [] s = "ASSIGNED" -> "IN_PROGRESS"
      [] s = "IN_PROGRESS" -> "COMPLETED"
      [] OTHER -> None

Edge(s, t) ==
    /\ s \notin Terminal
    /\ t \in {Successor(s), "CANCELLED"}

\* The step slot r takes in this transition, if any.
Steps(r, from, to) == pc[r] = from /\ pc'[r] = to

Target(r) == req[r].order

\* Slot r is an update-status request that asks for another status than the
\* one its order has.
AsksTransition(r) ==
    /\ req[r].view = "update-status"
    /\ req[r].data.status # Absent
    /\ req[r].data.status # req[r].old_status

\* C1: an update-status request whose requested status is not a direct
\* successor of the order's current status in the transition graph leaves the
\* status as it is (it is rejected): its save never moves the order along a
\* pair of statuses that is not an edge.
C1_InvalidTransitionRejected ==
    [][\A r \in Reqs :
        (/\ Steps(r, "loaded", "saved")
         /\ req[r].data.status # Absent
         /\ ~Edge(orders[Target(r)].status, req[r].data.status))
        => orders'[Target(r)].status = orders[Target(r)].status]_vars

\* C2: COMPLETED and CANCELLED are terminal: no step of any request changes
\* the status of an order that is COMPLETED or CANCELLED.
C2_TerminalIsFinal ==
    [][\A o \in 1..Len(orders) :
        orders[o].status \in Terminal
        => orders'[o].status = orders[o].status]_vars

\* C3: every change of an order's status from s to t appends one history row
\* (s, t, acting user): the row an update-status request writes carries the
\* status it read as old_status, the status it saved as new_status and its
\* user as changed_by, and an order-detail update that changes the status
\* writes such a row too.
C3_ChangeIsLogged ==
    [][/\ \A r \in Reqs :
            (Steps(r, "saved", "logged") /\ AsksTransition(r))
            => history' = Append(history,
                    [order |-> Target(r), old_status |-> req[r].old_status,
                     new_status |-> req[r].data.status,
                     changed_by |-> req[r].user])
       /\ \A r \in Reqs :
            (/\ Steps(r, "detail", "done")
             /\ orders'[Target(r)].status # orders[Target(r)].status)
            => history' = Append(history,
                    [order |-> Target(r),
                     old_status |-> orders[Target(r)].status,
                     new_status |-> orders'[Target(r)].status,
                     changed_by |-> req[r].user])]_vars

\* The history rows of order o, in creation order.
RowsOf(o) == SelectSeq(history, LAMBDA row : row.order = o)

\* C4: in every reachable state the history rows of every order, in creation
\* order, are a walk of the transition graph: every row is an edge, every row
\* starts where the previous one ended, at most one row enters a terminal
\* status and none leaves one.
C4_HistoryIsWalk ==
    \A o \in 1..Len(orders) :
        LET rows == RowsOf(o)
        IN  /\ \A i \in 1..Len(rows) :
                    Edge(rows[i].old_status, rows[i].new_status)
            /\ \A i \in 2..Len(rows) :
                    rows[i].old_status = rows[i - 1].new_status
            /\ Cardinality({i \in 1..Len(rows) :
                                rows[i].new_status \in Terminal}) <= 1

\* C5: completed_at is set exactly once, by the transition that makes the
\* status COMPLETED: a step that moves an order to COMPLETED sets it, no step
\* sets it otherwise, and once set no step changes it.
C5_CompletedAtSetOnce ==
    [][\A o \in 1..Len(orders) :
        LET was == orders[o]
            now == orders'[o]
            completes == was.status # "COMPLETED" /\ now.status = "COMPLETED"
        IN  /\ completes => now.completed_at # None
            /\ was.completed_at # None => now.completed_at = was.completed_at
            /\ (was.completed_at = None /\ now.completed_at # None)
                    => completes]_vars

\* Slot r has saved the transition it asked for.
Applied(r) == pc[r] \in {"saved", "logged"} /\ AsksTransition(r)

\* C6: two update-status requests for one order that are in progress together
\* and read the same prior status never both apply their transition.
C6_NoDoubleTransition ==
    \A r1, r2 \in Reqs :
        (/\ r1 # r2
         /\ Applied(r1)
         /\ Applied(r2)
         /\ Target(r1) = Target(r2))
        => req[r1].old_status # req[r2].old_status

\* The step of slot r changes the status or the final price of its order.
ChangesStatusOrPrice(r) ==
    /\ pc'[r] # pc[r]
    /\ Target(r) \in 1..Len(orders)
    /\ \/ orders'[Target(r)].status # orders[Target(r)].status
       \/ orders'[Target(r)].final_price # orders[Target(r)].final_price

\* C7: no request made by a user whose role is CLIENT, through any endpoint,
\* changes the status or the final price of an order.
C7_ClientNeverChangesStatusOrPrice ==
    [][\A r \in Reqs :
        ChangesStatusOrPrice(r) => user_type[req[r].user] # "CLIENT"]_vars

\* The user of an update-status request is a driver who does not drive the
\* truck of the order the request names (or the order has no truck, or there
\* is no such order).
ForeignDriver(u, o) ==
    /\ user_type[u] = "DRIVER"
    /\ ~(o \in 1..Len(orders) /\ DrivenBy(o, u))

Untouched == UNCHANGED <<orders, history, notifications>>

Refused(r) == pc'[r] = "done" /\ req'[r].code = 404 /\ Untouched

\* C8: an update-status request of a driver on an order whose truck that
\* driver does not drive is refused with 404 at each of the handler's two
\* look-ups and leaves orders, history and notifications as they are; every
\* write of an update-status request is made for a driver who drove the truck
\* of the order the request read, or for an operator or staff user.
C8_ForeignDriverRefused ==
    [][\A r \in Reqs :
        /\ (/\ pc[r] = "idle"
            /\ pc'[r] # "idle"
            /\ req'[r].view = "update-status"
            /\ ForeignDriver(req'[r].user, req'[r].order))
           => Refused(r)
        /\ (/\ pc[r] = "validated"
            /\ pc'[r] # "validated"
            /\ ForeignDriver(req[r].user, Target(r)))
           => Refused(r)
        /\ (/\ pc[r] \in {"loaded", "saved", "logged"}
            /\ pc'[r] # pc[r]
            /\ ~Untouched)
           => \/ /\ user_type[req[r].user] = "DRIVER"
                 /\ req[r].instance.tow_truck # None
                 /\ truck_driver[req[r].instance.tow_truck] = req[r].user
              \/ /\ user_type[req[r].user] # "DRIVER"
                 /\ \/ user_type[req[r].user] = "OPERATOR"
                    \/ is_staff[req[r].user]]_vars

\* C8, witness: driver2, who drives no truck, has asked for a status change of
\* the demo order and the response is 404.
C8_Witness ==
    \E r \in Reqs :
        /\ pc[r] = "done"
        /\ req[r].view = "update-status"
        /\ req[r].code = 404
        /\ Target(r) \in 1..Len(orders)
        /\ ForeignDriver(req[r].user, Target(r))

\* C9: the status change, the history row and the notification of one
\* update-status request are atomic: when the history append or the
\* notification creation fails, the order has the status it had before the
\* request changed it.
C9_FailureRollsBack ==
    [][\A r \in Reqs :
        (/\ pc[r] \in {"saved", "logged"}
         /\ pc'[r] = "done"
         /\ req'[r].code = 500)
        => orders'[Target(r)].status = req[r].old_status]_vars

\* C10: a successful update-status request that moves an order to a status t
\* with a message creates exactly one notification ORDER_t for the order's
\* client when that notification type exists, and none when it does not.
C10_NotificationForNewStatus ==
    [][\A r \in Reqs :
        (/\ Steps(r, "logged", "done")
         /\ req'[r].code = 200
         /\ AsksTransition(r)
         /\ req[r].data.status \in StatusMessages)
        => notifications' =
            IF NotificationCode(req[r].data.status) \in notification_types
            THEN Append(notifications,
                    [user |-> orders[Target(r)].client,
                     notification_type |-> NotificationCode(req[r].data.status),
                     related_order |-> Target(r), is_read |-> FALSE])
            ELSE notifications]_vars

\* ====================================================== order creation
\* ClientVehicle rows: v1 is client1's demo vehicle, v2 was added by driver2.
Vehicles == {"v1", "v2"}

vehicle_owner == [v \in Vehicles |-> IF v = "v1" THEN "client1" ELSE "driver2"]

\* Vehicle ids a create request may name: the vehicles and an id none has.
VehicleIds == Vehicles \cup {"v9"}

\* Bodies of the create request: the vehicle and final_price, a field that
\* OrderCreateSerializer does not exclude (the other fields are left out of
\* the model).
CreateBodies == [vehicle : VehicleIds, final_price : Prices \cup {None}]

\* A vehicle check that only looks the vehicle up.
VehicleExists(u, v) == v \in Vehicles

\* PrimaryKeyRelatedField(queryset=ClientVehicle.objects.all()) and
\* validate_vehicle: value.owner_id == request.user.id.
VehicleIsValid(u, v) == v \in Vehicles /\ vehicle_owner[v] = u

\* OrderCreateSerializer.create: client is the requesting user; status and
\* tow_truck are excluded from the serializer and get the model defaults.
NewOrder(u, data) ==
    [client |-> u, vehicle |-> data.vehicle, status |-> "PENDING",
     final_price |-> data.final_price, completed_at |-> None,
     tow_truck |-> None]

\* The notification perform_create makes for the new order.
CreatedNotification(u, o) ==
    [user |-> u, notification_type |-> "ORDER_CREATED", related_order |-> o,
     is_read |-> FALSE]

\* CreateAPIView.create of OrderCreateView: serializer.is_valid(), then
\* perform_create: serializer.save() and the ORDER_CREATED notification.
OrderCreate(r, u, data) ==
    /\ pc[r] = "idle"
    /\ served < MaxRequests
    /\ served' = served + 1
    /\ pc' = [pc EXCEPT ![r] = "done"]
    /\ LET q == [NoReq EXCEPT !.view = "order-create", !.user = u,
                              !.data = data]
           id == Len(orders) + 1
       IN  \/ /\ ~VehicleIsValid(u, data.vehicle)
              /\ req' = [req EXCEPT ![r] = [q EXCEPT !.code = 400]]
              /\ UNCHANGED <<orders, notifications>>
           \/ /\ VehicleIsValid(u, data.vehicle)
              /\ "ORDER_CREATED" \notin notification_types
              /\ orders' = Append(orders, NewOrder(u, data))
              /\ req' = [req EXCEPT ![r] = [q EXCEPT !.order = id, !.code = 201]]
              /\ UNCHANGED notifications
           \/ /\ VehicleIsValid(u, data.vehicle)
              /\ "ORDER_CREATED" \in notification_types
              /\ orders' = Append(orders, NewOrder(u, data))
              /\ req' = [req EXCEPT ![r] = [q EXCEPT !.order = id, !.code = 201]]
              /\ notifications' = Append(notifications, CreatedNotification(u, id))
    /\ UNCHANGED <<history, notification_types, locationVars, supportVars>>

\* No order yet; the NotificationType table holds the rows above or is still
\* empty (create_sample_data has not loaded it).
InitCreate ==
    /\ orders = <<>>
    /\ history = <<>>
    /\ notifications = <<>>
    /\ notification_types \in {NotificationTypeTable, {}}
    /\ RequestsIdle
    /\ LocationIdle
    /\ SupportEmpty

NextCreate ==
    \/ \E r \in Reqs, u \in Users, d \in CreateBodies : OrderCreate(r, u, d)
    \/ \E r \in Reqs : Finish(r)

SpecCreate == InitCreate /\ [][NextCreate]_vars

\* Slot r answers a create request in this step.
AnswersCreate(r) ==
    /\ pc[r] = "idle"
    /\ pc'[r] = "done"
    /\ req'[r].view = "order-create"

\* What a create request answered in this step has done: for a vehicle of the
\* requesting user one order is appended with status PENDING, no tow truck,
\* that user as client and that vehicle, and the notification table is as
\* `notify` says; for any other vehicle the request is rejected and no order
\* and no notification is created.
CreateOutcome(r, notify) ==
    LET u == req'[r].user
        v == req'[r].data.vehicle
        id == Len(orders) + 1
    IN  IF v \in Vehicles /\ vehicle_owner[v] = u
        THEN /\ req'[r].code = 201
             /\ Len(orders') = id
             /\ SubSeq(orders', 1, Len(orders)) = orders
             /\ orders'[id].status = "PENDING"
             /\ orders'[id].tow_truck = None
             /\ orders'[id].client = u
             /\ orders'[id].vehicle = v
             /\ notifications' =
                    IF notify
                    THEN Append(notifications, CreatedNotification(u, id))
                    ELSE notifications
        ELSE /\ req'[r].code = 400
             /\ UNCHANGED <<orders, notifications>>

\* C11 as the specification states it: every created order is PENDING, has no
\* tow truck, the requesting user as client and a vehicle of that user, and
\* an ORDER_CREATED notification is created for that user; a request naming
\* another user's vehicle is rejected and creates nothing.
C11_CreateAlwaysNotifies ==
    [][\A r \in Reqs : AnswersCreate(r) => CreateOutcome(r, TRUE)]_vars

\* C11, amended: as above, but the ORDER_CREATED notification is created only
\* when the notification type ORDER_CREATED exists; when it does not, the
\* order is created all the same and no notification is.
C11_CreateNotifiesIfTypeExists ==
    [][\A r \in Reqs :
        AnswersCreate(r)
        => CreateOutcome(r, "ORDER_CREATED" \in notification_types)]_vars

\* C11, witness: client1 has created an order for their vehicle and has the
\* ORDER_CREATED notification of that order.
C11_Witness ==
    \E r \in Reqs :
        /\ pc[r] = "done"
        /\ req[r].view = "order-create"
        /\ req[r].code = 201
        /\ orders[req[r].order].client = req[r].user
        /\ \E i \in 1..Len(notifications) :
                notifications[i] = CreatedNotification(req[r].user, req[r].order)

\* ===================================================== location stream
\* Coordinates a location update may carry.
Latitudes == {-91, 55, 91}

Longitudes == {-181, 37, 181}

\* A coordinate check that looks at the latitude only.
ValidLatitudeOnly(lat, lon) == -90 <= lat /\ lat <= 90

\* LocationUpdateSerializer.validate_latitude and validate_longitude.
ValidCoordinate(lat, lon) ==
    /\ -90 <= lat /\ lat <= 90
    /\ -180 <= lon /\ lon <= 180

\* A look-up that takes any truck of the fleet for the caller's.
EveryTruck(u) == Fleet

\* TowTruck.objects.get(driver=request.user)
TrucksOf(u) == {t \in Fleet : truck_driver[t] = u}

\* active_statuses of update_location
ActiveStatuses == {"PENDING", "CONFIRMED", "ASSIGNED", "IN_PROGRESS"}

\* A query that gives every order of the truck, whatever its status.
OrdersOf(t) == {o \in 1..Len(orders) : orders[o].tow_truck = t}

\* Order.objects.filter(tow_truck=tow_truck, status__in=active_statuses)
ActiveOrdersOf(t) ==
    {o \in 1..Len(orders) :
        orders[o].tow_truck = t /\ orders[o].status \in ActiveStatuses}

\* The groups update_location sends to, in the order of its group_send calls:
\* the truck's group, then the group of each active order of the truck.
SendsOf(t) ==
    LET ids == [i \in 1..Len(orders) |-> i]
        active == SelectSeq(ids, LAMBDA o : o \in ActiveOrdersOf(t))
    IN  <<TruckGroup(t)>> \o [i \in 1..Len(active) |-> OrderGroup(active[i])]

\* The request data of update_location, with the handler's tow_truck and the
\* groups it has sent to.
LocationData(lat, lon) ==
    [latitude |-> lat, longitude |-> lon, truck |-> None, stamp |-> 0,
     sent |-> <<>>]

\* update_location up to tow_truck.save(): the role check, the serializer, the
\* look-up of the caller's truck and the save of coordinate and timestamp.
LocationUpdate(r, u, lat, lon) ==
    /\ pc[r] = "idle"
    /\ served < MaxRequests
    /\ served' = served + 1
    /\ LET q == [NoReq EXCEPT !.view = "location-update", !.user = u,
                              !.data = LocationData(lat, lon)]
       IN  \/ /\ user_type[u] # "DRIVER"
              /\ pc' = [pc EXCEPT ![r] = "done"]
              /\ req' = [req EXCEPT ![r] = [q EXCEPT !.code = 403]]
              /\ UNCHANGED trucks
           \/ /\ user_type[u] = "DRIVER"
              /\ ~ValidCoordinate(lat, lon)
              /\ pc' = [pc EXCEPT ![r] = "done"]
              /\ req' = [req EXCEPT ![r] = [q EXCEPT !.code = 400]]
              /\ UNCHANGED trucks
           \/ /\ user_type[u] = "DRIVER"
              /\ ValidCoordinate(lat, lon)
              /\ TrucksOf(u) = {}
              /\ pc' = [pc EXCEPT ![r] = "done"]
              /\ req' = [req EXCEPT ![r] = [q EXCEPT !.code = 404]]
              /\ UNCHANGED trucks
           \/ /\ user_type[u] = "DRIVER"
              /\ ValidCoordinate(lat, lon)
              /\ \E t \in TrucksOf(u) :
                    /\ trucks' = [trucks EXCEPT ![t] =
                            [known |-> TRUE, lat |-> lat, lon |-> lon,
                             stamp |-> served']]
                    /\ pc' = [pc EXCEPT ![r] = "persisted"]
                    /\ req' = [req EXCEPT ![r] =
                            [q EXCEPT !.data.truck = t,
                                      !.data.stamp = served']]
    /\ UNCHANGED <<orders, history, notifications, notification_types>>
    /\ UNCHANGED <<groups, conn, supportVars>>

\* The payload of update_location: the coordinate of the handler's tow_truck
\* object, as the handler set it.
UpdatePayload(r) ==
    [type |-> "update",
     location |-> [known |-> TRUE, lat |-> req[r].data.latitude,
                   lon |-> req[r].data.longitude, stamp |-> req[r].data.stamp]]

\* update_location from get_channel_layer() on: group_send to the truck's
\* group and to the group of each active order of the truck; the channel
\* layer puts the message into the channel of every member of the group and
\* the member's consumer (location_update) forwards it to its client.
LocationPublish(r) ==
    /\ pc[r] = "persisted"
    /\ LET sent == SendsOf(req[r].data.truck)
           times(c) == Cardinality({i \in 1..Len(sent) : <<sent[i], c>> \in groups})
       IN  /\ conn' = [c \in Conns |->
                    IF times(c) = 0
                    THEN conn[c]
                    ELSE [conn[c] EXCEPT !.received = Append(@, UpdatePayload(r))]]
           /\ req' = [req EXCEPT ![r].data.sent = sent, ![r].code = 200]
    /\ pc' = [pc EXCEPT ![r] = "done"]
    /\ UNCHANGED <<orders, history, notifications, notification_types, served>>
    /\ UNCHANGED <<trucks, groups, supportVars>>

\* Who opens a connection: an account, or nobody (no session and no token).
Subscribers == Accounts \cup {None}

\* The targets a connection may name: the orders and an id no order has, the
\* trucks and an id no truck has.
ConnTargets ==
    {OrderGroup(o) : o \in 1..3} \cup {TruckGroup(t) : t \in Fleet \cup {"t9"}}

\* getattr(self.user, "user_type", None) == code: user_type is the related
\* UserType object, and a model instance never equals a str.
UserTypeEquals(u, code) == FALSE

\* An access check that admits every authenticated user.
CanAccessAnything(u, x) == TRUE

\* LocationConsumer._can_access_order
CanAccessOrder(u, o) ==
    \/ is_staff[u]
    \/ UserTypeEquals(u, "OPERATOR")
    \/ orders[o].client = u
    \/ /\ orders[o].tow_truck # None
       /\ truck_driver[orders[o].tow_truck] = u

\* LocationConsumer._can_access_tow_truck
CanAccessTowTruck(u, t) ==
    \/ is_staff[u]
    \/ UserTypeEquals(u, "OPERATOR")
    \/ truck_driver[t] = u

\* close(code) before accept(): the connection is refused.
Refuse(c, u, g, code) ==
    conn' = [conn EXCEPT ![c] =
                [NoConn EXCEPT !.phase = "closed", !.user = u, !.group = g,
                               !.code = code]]

\* LocationConsumer._current_location on the objects connect() has loaded.
SnapshotOf(t) == IF t = None THEN NoLocation ELSE trucks[t]

\* LocationConsumer.connect up to the choice of group_name: _authenticate,
\* _get_order or _get_tow_truck (select_related loads the truck with it) and
\* the access check.
Connect(c, u, g) ==
    /\ conn[c].phase = "new"
    /\ \/ /\ u = None
          /\ Refuse(c, u, g, 4001)
       \/ /\ u # None
          /\ g.order # 0
          /\ g.order \notin 1..Len(orders)
          /\ Refuse(c, u, g, 4004)
       \/ /\ u # None
          /\ g.order \in 1..Len(orders)
          /\ ~CanAccessOrder(u, g.order)
          /\ Refuse(c, u, g, 4003)
       \/ /\ u # None
          /\ g.order \in 1..Len(orders)
          /\ CanAccessOrder(u, g.order)
          /\ conn' = [conn EXCEPT ![c] =
                [NoConn EXCEPT !.phase = "loaded", !.user = u, !.group = g,
                               !.truck = orders[g.order].tow_truck,
                               !.snapshot = SnapshotOf(orders[g.order].tow_truck)]]
       \/ /\ u # None
          /\ g.order = 0
          /\ g.truck \notin Fleet
          /\ Refuse(c, u, g, 4004)
       \/ /\ u # None
          /\ g.order = 0
          /\ g.truck \in Fleet
          /\ ~CanAccessTowTruck(u, g.truck)
          /\ Refuse(c, u, g, 4003)
       \/ /\ u # None
          /\ g.order = 0
          /\ g.truck \in Fleet
          /\ CanAccessTowTruck(u, g.truck)
          /\ conn' = [conn EXCEPT ![c] =
                [NoConn EXCEPT !.phase = "loaded", !.user = u, !.group = g,
                               !.truck = g.truck,
                               !.snapshot = SnapshotOf(g.truck)]]
    /\ UNCHANGED <<orders, history, notifications, notification_types>>
    /\ UNCHANGED <<pc, req, served, trucks, groups, supportVars>>

\* LocationConsumer._build_payload
InitialPayload(location) == [type |-> "initial", location |-> location]

\* LocationConsumer.connect from group_add on: group_add, accept and the
\* snapshot of the coordinate of the truck object loaded before.  A message
\* sent to the group meanwhile waits in the channel until connect returns.
ConnectJoin(c) ==
    /\ conn[c].phase = "loaded"
    /\ groups' = groups \cup {<<conn[c].group, c>>}
    /\ conn' = [conn EXCEPT
                    ![c].phase = "open",
                    ![c].received =
                        IF ~conn[c].snapshot.known
                        THEN <<>>
                        ELSE <<InitialPayload(conn[c].snapshot)>>]
    /\ UNCHANGED <<orders, history, notifications, notification_types>>
    /\ UNCHANGED <<pc, req, served, trucks, supportVars>>

\* A disconnect that leaves the channel in its group.
DisconnectKeepsGroup(c) ==
    /\ conn[c].phase = "open"
    /\ conn' = [conn EXCEPT ![c].phase = "closed", ![c].code = 1000]
    /\ UNCHANGED <<orders, history, notifications, notification_types>>
    /\ UNCHANGED <<pc, req, served, trucks, groups, supportVars>>

\* LocationConsumer.disconnect: group_discard.
Disconnect(c) ==
    /\ conn[c].phase = "open"
    /\ groups' = groups \ {<<conn[c].group, c>>}
    /\ conn' = [conn EXCEPT ![c].phase = "closed", ![c].code = 1000]
    /\ UNCHANGED <<orders, history, notifications, notification_types>>
    /\ UNCHANGED <<pc, req, served, trucks, supportVars>>

\* Two orders of client1: the first on the demo truck, the second on either
\* truck; no coordinate is known and nobody is connected.
InitLocation ==
    /\ \E s \in {"ASSIGNED", "COMPLETED"}, t \in Fleet :
            orders = <<[DemoOrder EXCEPT !.tow_truck = "t1", !.status = s],
                       [DemoOrder EXCEPT !.tow_truck = t,
                                         !.status = "IN_PROGRESS"]>>
    /\ history = <<>>
    /\ notifications = <<>>
    /\ notification_types = NotificationTypeTable
    /\ RequestsIdle
    /\ LocationIdle
    /\ SupportEmpty

NextLocation ==
    \/ \E r \in Reqs, u \in Users, lat \in Latitudes, lon \in Longitudes :
            LocationUpdate(r, u, lat, lon)
    \/ \E r \in Reqs : LocationPublish(r)
    \/ \E c \in Conns, u \in Subscribers, g \in ConnTargets : Connect(c, u, g)
    \/ \E c \in Conns : ConnectJoin(c)
    \/ \E c \in Conns : Disconnect(c)
    \/ \E r \in Reqs : Finish(r)

SpecLocation == InitLocation /\ [][NextLocation]_vars

\* Slot r takes a location update in this step.
AnswersLocation(r) ==
    /\ pc[r] = "idle"
    /\ pc'[r] # "idle"
    /\ req'[r].view = "location-update"

\* The coordinate of the update slot r takes in this step is out of range.
OutOfRange(r) ==
    \/ req'[r].data.latitude < -90
    \/ req'[r].data.latitude > 90
    \/ req'[r].data.longitude < -180
    \/ req'[r].data.longitude > 180

\* The update slot r takes in this step ends at once, stores no coordinate
\* and sends nothing to any group or connection.
EndsWithoutEffect(r) ==
    /\ pc'[r] = "done"
    /\ req'[r].data.sent = <<>>
    /\ UNCHANGED <<trucks, groups, conn>>

\* C12 as the specification states it: a location update whose latitude or
\* longitude is out of range always fails with a validation error (400),
\* stores nothing and publishes nothing.
C12_OutOfRangeIsValidationError ==
    [][\A r \in Reqs :
        (AnswersLocation(r) /\ OutOfRange(r))
        => (EndsWithoutEffect(r) /\ req'[r].code = 400)]_vars

\* C12, amended: a location update whose latitude or longitude is out of
\* range always fails, stores nothing and publishes nothing; the failure is a
\* validation error (400) when the caller is a driver, whether or not a truck
\* is assigned to them, and the refusal of a caller that is no driver (403),
\* which comes before the validation.
C12_OutOfRangeFails ==
    [][\A r \in Reqs :
        (AnswersLocation(r) /\ OutOfRange(r))
        => /\ EndsWithoutEffect(r)
           /\ req'[r].code =
                IF user_type[req'[r].user] = "DRIVER" THEN 400 ELSE 403]_vars

\* C12, witness: a driver has sent latitude 91 with a longitude in range and
\* the answer is 400.
C12_Witness ==
    \E r \in Reqs :
        /\ pc[r] = "done"
        /\ req[r].view = "location-update"
        /\ user_type[req[r].user] = "DRIVER"
        /\ req[r].data.latitude = 91
        /\ req[r].data.longitude = 37
        /\ req[r].code = 400

\* How often group g is in the sequence of sends s.
Occurrences(s, g) == Cardinality({i \in 1..Len(s) : s[i] = g})

\* C13: the publish step of a successful location update of truck t, taken
\* after the coordinate is stored, sends exactly one message to the group of
\* t and exactly one to the group of each order that is assigned to t and is
\* PENDING, CONFIRMED, ASSIGNED or IN_PROGRESS, and none to any other group:
\* 1 + the number of those orders sends in total.
C13_PublishCalls ==
    [][\A r \in Reqs :
        (/\ pc[r] = "persisted"
         /\ pc'[r] # "persisted")
        => LET t == req[r].data.truck
               sent == req'[r].data.sent
               live == {o \in 1..Len(orders) :
                            /\ orders[o].tow_truck = t
                            /\ orders[o].status \in
                                {"PENDING", "CONFIRMED", "ASSIGNED", "IN_PROGRESS"}}
           IN  /\ req'[r].code = 200
               /\ trucks[t].known
               /\ Occurrences(sent, TruckGroup(t)) = 1
               /\ \A o \in 1..Len(orders) :
                    Occurrences(sent, OrderGroup(o)) = IF o \in live THEN 1 ELSE 0
               /\ Len(sent) = 1 + Cardinality(live)]_vars

\* C13, witness: the truck serves one COMPLETED and one IN_PROGRESS order and
\* its update has made exactly two sends.
C13_Witness ==
    \E r \in Reqs :
        /\ pc[r] = "done"
        /\ req[r].view = "location-update"
        /\ req[r].code = 200
        /\ orders[1].status = "COMPLETED"
        /\ orders[1].tow_truck = req[r].data.truck
        /\ orders[2].tow_truck = req[r].data.truck
        /\ Len(req[r].data.sent) = 2

\* User u may join group g: for an order's group u is the order's client, the
\* driver of the order's truck or an operator/admin; for a truck's group u is
\* the truck's driver or an operator/admin.
MayJoin(u, g) ==
    /\ u # None
    /\ IF g.order # 0
       THEN /\ g.order \in 1..Len(orders)
            /\ \/ orders[g.order].client = u
               \/ /\ orders[g.order].tow_truck # None
                  /\ truck_driver[orders[g.order].tow_truck] = u
               \/ user_type[u] = "OPERATOR"
               \/ is_staff[u]
       ELSE /\ g.truck \in Fleet
            /\ \/ truck_driver[g.truck] = u
               \/ user_type[u] = "OPERATOR"
               \/ is_staff[u]

\* C14: subscriptions fail closed: a connection is a member of a group only
\* if its user may join that group, and a connection whose user may not join
\* its target (nobody, a missing target, a user without access) is closed, is
\* in no group and has received no message.
C14_FailClosed ==
    \A c \in Conns :
        /\ \A g \in ConnTargets :
                <<g, c>> \in groups
                => (g = conn[c].group /\ MayJoin(conn[c].user, g))
        /\ (conn[c].phase # "new" /\ ~MayJoin(conn[c].user, conn[c].group))
           => /\ conn[c].phase = "closed"
              /\ conn[c].code \in {4001, 4003, 4004}
              /\ conn[c].received = <<>>
              /\ \A g \in ConnTargets : <<g, c>> \notin groups

\* C14, witness: driver2, who drives no truck, asked for the stream of the
\* first order and was refused with 4003.
C14_Witness ==
    \E c \in Conns :
        /\ conn[c].phase = "closed"
        /\ conn[c].code = 4003
        /\ conn[c].user = "driver2"
        /\ conn[c].group = OrderGroup(1)

\* C15: an operator that is no staff account and connects to the stream of an
\* existing order or truck is admitted: connect goes on to group_add.
C15_OperatorAdmitted ==
    [][\A c \in Conns :
        (/\ conn[c].phase = "new"
         /\ conn'[c].phase # "new"
         /\ conn'[c].user # None
         /\ user_type[conn'[c].user] = "OPERATOR"
         /\ ~is_staff[conn'[c].user]
         /\ \/ conn'[c].group.order \in 1..Len(orders)
            \/ conn'[c].group.truck \in Fleet)
        => conn'[c].phase = "loaded"]_vars

\* Connection c is open on a target that update_location publishes to for
\* truck t: the group of t, or the group of an active order of t.
Follows(c, t) ==
    /\ conn[c].phase = "open"
    /\ \/ conn[c].group = TruckGroup(t)
       \/ \E o \in ActiveOrdersOf(t) : conn[c].group = OrderGroup(o)

\* An update of truck t is stored and not published yet.
InFlight(t) ==
    \E r \in Reqs : pc[r] = "persisted" /\ req[r].data.truck = t

\* C16: no update falls between the snapshot and the live stream: once every
\* stored update of a truck has been published, a subscriber of that truck
\* has the truck's latest stored coordinate, in its initial snapshot or in an
\* update it received.
C16_NoUpdateLost ==
    \A c \in Conns, t \in Fleet :
        (Follows(c, t) /\ trucks[t].known /\ ~InFlight(t))
        => \E i \in 1..Len(conn[c].received) :
                conn[c].received[i].location = trucks[t]

\* ============================================================= ratings
\* Scores a rating request may carry (the validators allow 1 to 5).
Scores == {3, 6}

\* Bodies of the rating request: RatingSerializer has fields "__all__", so the
\* body names an order of its own next to the scores (one score is modelled).
RatingBodies == [order : 1..3, driver_rating : Scores]

\* Orders that have a rating.
Rated == {ratings[i].order : i \in 1..Len(ratings)}

\* RatingSerializer.is_valid: the body's order exists (PrimaryKeyRelatedField)
\* and has no rating (the UniqueValidator of the one-to-one field), the score
\* is within 1 and 5.
RatingIsValid(data) ==
    /\ data.order \in 1..Len(orders)
    /\ data.order \notin Rated
    /\ 1 <= data.driver_rating /\ data.driver_rating <= 5

\* A look-up that takes every order, whoever its client is and whatever its
\* status.
AnyOrder(u) == 1..Len(orders)

\* get_object_or_404(Order, id=order_id, client=request.user,
\* status="COMPLETED")
RatableBy(u) ==
    {o \in 1..Len(orders) :
        orders[o].client = u /\ orders[o].status = "COMPLETED"}

\* CreateAPIView.create of RatingCreateView up to serializer.save():
\* is_valid, then the look-up of the order the URL names.
RatingBegin(r, u, o, data) ==
    /\ pc[r] = "idle"
    /\ served < MaxRequests
    /\ served' = served + 1
    /\ LET q == [NoReq EXCEPT !.view = "rating", !.user = u, !.order = o]
       IN  \/ /\ ~RatingIsValid(data)
              /\ pc' = [pc EXCEPT ![r] = "done"]
              /\ req' = [req EXCEPT ![r] = [q EXCEPT !.code = 400]]
           \/ /\ RatingIsValid(data)
              /\ o \notin RatableBy(u)
              /\ pc' = [pc EXCEPT ![r] = "done"]
              /\ req' = [req EXCEPT ![r] = [q EXCEPT !.code = 404]]
           \/ /\ RatingIsValid(data)
              /\ o \in RatableBy(u)
              /\ pc' = [pc EXCEPT ![r] = "rating"]
              /\ req' = [req EXCEPT ![r] = [q EXCEPT !.data = data]]
    /\ UNCHANGED <<orders, history, notifications, notification_types>>
    /\ UNCHANGED <<locationVars, supportVars>>

\* serializer.save(order=order): the INSERT, for the order of the URL; the
\* one-to-one column is unique, a second row for the order is an
\* IntegrityError.
RatingSave(r) ==
    /\ pc[r] = "rating"
    /\ \/ /\ req[r].order \in Rated
          /\ Respond(r, 500)
          /\ UNCHANGED ratings
       \/ /\ req[r].order \notin Rated
          /\ ratings' = Append(ratings,
                [order |-> req[r].order,
                 driver_rating |-> req[r].data.driver_rating])
          /\ Respond(r, 201)
    /\ UNCHANGED <<orders, history, notifications, notification_types, served>>
    /\ UNCHANGED <<locationVars, tickets, messages>>

\* Two orders of client1 and one of driver2, completed or still in progress;
\* no rating yet.
InitRating ==
    /\ \E s \in {"IN_PROGRESS", "COMPLETED"} :
            orders = <<[DemoOrder EXCEPT !.status = "COMPLETED"],
                       [DemoOrder EXCEPT !.status = s],
                       [DemoOrder EXCEPT !.status = "COMPLETED",
                                         !.client = "driver2"]>>
    /\ history = <<>>
    /\ notifications = <<>>
    /\ notification_types = NotificationTypeTable
    /\ RequestsIdle
    /\ LocationIdle
    /\ SupportEmpty

NextRating ==
    \/ \E r \in Reqs, u \in Users, o \in 1..4, d \in RatingBodies :
            RatingBegin(r, u, o, d)
    \/ \E r \in Reqs : RatingSave(r)
    \/ \E r \in Reqs : Finish(r)

SpecRating == InitRating /\ [][NextRating]_vars

\* Slot r ends a rating request in this step.
EndsRating(r) ==
    /\ pc[r] # "done"
    /\ pc'[r] = "done"
    /\ req'[r].view = "rating"

\* C17: a rating submission creates a Rating only if the order it targets is
\* COMPLETED, the caller is that order's client and the order has no rating
\* yet, and then it creates one Rating of that order; in every other case
\* the submission fails and the Rating table is unchanged, so no order ever
\* has two ratings.
C17_RatingOnlyOnceByClient ==
    [][\A r \in Reqs :
        EndsRating(r)
        => LET o == req'[r].order
               u == req'[r].user
               may == /\ o \in 1..Len(orders)
                      /\ orders[o].status = "COMPLETED"
                      /\ orders[o].client = u
                      /\ \A i \in 1..Len(ratings) : ratings[i].order # o
           IN  /\ req'[r].code = 201
                    => /\ may
                       /\ Len(ratings') = Len(ratings) + 1
                       /\ SubSeq(ratings', 1, Len(ratings)) = ratings
                       /\ ratings'[Len(ratings')].order = o
               /\ req'[r].code # 201 => UNCHANGED ratings
               /\ ~may => req'[r].code # 201
               /\ \A i, j \in 1..Len(ratings') :
                    ratings'[i].order = ratings'[j].order => i = j]_vars

\* C17, witness: client1 rated the first order and a second submission for
\* that order has failed.
C17_Witness ==
    \E r \in Reqs :
        /\ pc[r] = "done"
        /\ req[r].view = "rating"
        /\ req[r].user = "client1"
        /\ req[r].order = 1
        /\ req[r].code \in {400, 500}
        /\ Len(ratings) = 1
        /\ ratings[1].order = 1

\* ======================================================== notifications
\* Notification ids a mark-read request may name: the rows and an id none has.
NotificationIds == 1..3

\* A look-up by id alone.
AnyNotification(u) == 1..Len(notifications)

\* get_object_or_404(Notification, id=notification_id, user=request.user)
NotificationsOf(u) ==
    {n \in 1..Len(notifications) : notifications[n].user = u}

\* mark_notification_read
MarkRead(r, u, n) ==
    /\ pc[r] = "idle"
    /\ served < MaxRequests
    /\ served' = served + 1
    /\ pc' = [pc EXCEPT ![r] = "done"]
    /\ LET q == [NoReq EXCEPT !.view = "notification-read", !.user = u,
                              !.order = n]
       IN  \/ /\ n \notin NotificationsOf(u)
              /\ req' = [req EXCEPT ![r] = [q EXCEPT !.code = 404]]
              /\ UNCHANGED notifications
           \/ /\ n \in NotificationsOf(u)
              /\ notifications' = [notifications EXCEPT ![n].is_read = TRUE]
              /\ req' = [req EXCEPT ![r] = [q EXCEPT !.code = 200]]
    /\ UNCHANGED <<orders, history, notification_types>>
    /\ UNCHANGED <<locationVars, supportVars>>

\* The demo order and two notifications about it, one of client1 and one of
\* driver1, read or not.
InitNotifications ==
    /\ orders = <<DemoOrder>>
    /\ history = <<>>
    /\ \E a, b \in BOOLEAN :
            notifications =
                <<[user |-> "client1", notification_type |-> "ORDER_CREATED",
                   related_order |-> 1, is_read |-> a],
                  [user |-> "driver1", notification_type |-> "ORDER_CONFIRMED",
                   related_order |-> 1, is_read |-> b]>>
    /\ notification_types = NotificationTypeTable
    /\ RequestsIdle
    /\ LocationIdle
    /\ SupportEmpty

NextNotifications ==
    \/ \E r \in Reqs, u \in Users, n \in NotificationIds : MarkRead(r, u, n)
    \/ \E r \in Reqs : Finish(r)

SpecNotifications == InitNotifications /\ [][NextNotifications]_vars

\* C18: mark_read on a notification that is not the caller's, or that does
\* not exist, fails with not-found and leaves every notification as it is;
\* on the caller's own notification it sets is_read, changes no other field
\* of it and no other notification.
C18_MarkReadOwnOnly ==
    [][\A r \in Reqs :
        (/\ pc[r] = "idle"
         /\ pc'[r] = "done"
         /\ req'[r].view = "notification-read")
        => LET n == req'[r].order
               u == req'[r].user
           IN  IF n \in 1..Len(notifications) /\ notifications[n].user = u
               THEN /\ req'[r].code = 200
                    /\ Len(notifications') = Len(notifications)
                    /\ notifications'[n] =
                            [notifications[n] EXCEPT !.is_read = TRUE]
                    /\ \A i \in 1..Len(notifications) :
                            i # n => notifications'[i] = notifications[i]
               ELSE /\ req'[r].code = 404
                    /\ UNCHANGED notifications]_vars

\* C18, witness: client1 asked to mark driver1's unread notification as read,
\* the answer is 404 and the notification is still unread.
C18_Witness ==
    \E r \in Reqs :
        /\ pc[r] = "done"
        /\ req[r].view = "notification-read"
        /\ req[r].user = "client1"
        /\ req[r].order = 2
        /\ req[r].code = 404
        /\ ~notifications[2].is_read

\* ====================================================== support tickets
\* Tickets the model lets exist.
MaxTickets == 2

\* The TicketStatus table of create_sample_data.
TicketStatuses == {"OPEN", "IN_PROGRESS", "RESOLVED", "CLOSED"}

\* closed_codes and reopened_codes of SupportTicketUpdateSerializer.update
closed_codes == {"RESOLVED", "CLOSED"}
reopened_codes == {"OPEN", "IN_PROGRESS"}

\* The accounts that use the support desk: the author client1, driver1 who
\* has nothing to do with the ticket, operator1 and the staff account admin1.
Supporters == {"client1", "driver1", "operator1", "admin1"}

\* Ticket ids a request may name: the tickets and an id none has.
TicketIds == 1..(MaxTickets + 1)

\* The clock: it advances with every request and every message; 0 stands
\* for a null timestamp.
Now == served + Len(messages) + 1

\* user.is_staff or user.user_type_id == "OPERATOR"
IsOperator(u) == is_staff[u] \/ user_type[u] = "OPERATOR"

\* SupportTicketCreateSerializer plus author and status of perform_create;
\* closed_at and assigned_to are null by default.
NewTicket(u, priority, stamp) ==
    [author |-> u, status |-> "OPEN", priority |-> priority,
     assigned_to |-> None, closed_at |-> 0, last_message_at |-> stamp]

\* SupportTicketListCreateView.perform_create: the ticket in status OPEN (the
\* table has the row), its first message, last_message_at.
TicketCreate(r, u, priority) ==
    /\ pc[r] = "idle"
    /\ served < MaxRequests
    /\ Len(tickets) < MaxTickets
    /\ served' = served + 1
    /\ tickets' = Append(tickets, NewTicket(u, priority, Now))
    /\ messages' = Append(messages,
            [ticket |-> Len(tickets) + 1, author |-> u, is_internal |-> FALSE,
             created_at |-> Now])
    /\ pc' = [pc EXCEPT ![r] = "done"]
    /\ req' = [req EXCEPT ![r] =
                [NoReq EXCEPT !.view = "ticket-create", !.user = u,
                              !.order = Len(tickets) + 1, !.code = 201]]
    /\ UNCHANGED <<orders, history, notifications, notification_types>>
    /\ UNCHANGED <<locationVars, ratings>>

\* SupportTicketDetailView.get_queryset
TicketQueryset(u) ==
    {t \in 1..Len(tickets) : IsOperator(u) \/ tickets[t].author = u}

\* Bodies of PATCH support/tickets/<id>/ (related_order is left out).
TicketBodies ==
    [status : TicketStatuses \cup {Absent, "REJECTED"},
     priority : {Absent, "HIGH"},
     assigned_to : {Absent, "operator1", "client1"}]

\* SupportTicketUpdateSerializer.is_valid: the status is a code of the
\* table, validate_assigned_to takes operators and staff only.
TicketBodyIsValid(data) ==
    /\ data.status \in TicketStatuses \cup {Absent}
    /\ data.assigned_to # Absent => IsOperator(data.assigned_to)

\* perform_update: who is not an operator may send priority only.
MayUpdateTicket(u, data) ==
    \/ IsOperator(u)
    \/ data.status = Absent /\ data.assigned_to = Absent

\* ModelSerializer.update: setattr of every validated field.
ApplyTicket(instance, data) ==
    [instance EXCEPT
        !.status = IF data.status = Absent THEN @ ELSE data.status,
        !.priority = IF data.priority = Absent THEN @ ELSE data.priority,
        !.assigned_to =
            IF data.assigned_to = Absent THEN @ ELSE data.assigned_to]

\* UpdateAPIView.update up to serializer.save(): get_object, is_valid,
\* perform_update's permission check.
TicketUpdateBegin(r, u, t, data) ==
    /\ pc[r] = "idle"
    /\ served < MaxRequests
    /\ served' = served + 1
    /\ LET q == [NoReq EXCEPT !.view = "ticket-update", !.user = u,
                              !.order = t]
       IN  \/ /\ t \notin TicketQueryset(u)
              /\ pc' = [pc EXCEPT ![r] = "done"]
              /\ req' = [req EXCEPT ![r] = [q EXCEPT !.code = 404]]
           \/ /\ t \in TicketQueryset(u)
              /\ ~TicketBodyIsValid(data)
              /\ pc' = [pc EXCEPT ![r] = "done"]
              /\ req' = [req EXCEPT ![r] = [q EXCEPT !.code = 400]]
           \/ /\ t \in TicketQueryset(u)
              /\ TicketBodyIsValid(data)
              /\ ~MayUpdateTicket(u, data)
              /\ pc' = [pc EXCEPT ![r] = "done"]
              /\ req' = [req EXCEPT ![r] = [q EXCEPT !.code = 403]]
           \/ /\ t \in TicketQueryset(u)
              /\ TicketBodyIsValid(data)
              /\ MayUpdateTicket(u, data)
              /\ pc' = [pc EXCEPT ![r] = "ticket-loaded"]
              /\ req' = [req EXCEPT ![r] =
                            [q EXCEPT !.data = data,
                                      !.instance = tickets[t]]]
    /\ UNCHANGED <<orders, history, notifications, notification_types>>
    /\ UNCHANGED <<locationVars, supportVars>>

\* The second save of SupportTicketUpdateSerializer.update is due:
\* closed_at is to be set, or to be cleared.
ClosedAtIsDue(previous_status, instance) ==
    \/ instance.status \in closed_codes /\ instance.closed_at = 0
    \/ /\ previous_status \in closed_codes
       /\ instance.status \in reopened_codes
       /\ instance.closed_at # 0

\* SupportTicketUpdateSerializer.update, super().update(): instance.save()
\* writes every column of the row from the instance get_object loaded.
TicketUpdateSave(r) ==
    /\ pc[r] = "ticket-loaded"
    /\ LET instance == ApplyTicket(req[r].instance, req[r].data)
           previous_status == req[r].instance.status
       IN  /\ tickets' = [tickets EXCEPT ![req[r].order] = instance]
           /\ \/ /\ ClosedAtIsDue(previous_status, instance)
                 /\ pc' = [pc EXCEPT ![r] = "ticket-saved"]
                 /\ req' = [req EXCEPT ![r].instance = instance]
              \/ /\ ~ClosedAtIsDue(previous_status, instance)
                 /\ Respond(r, 200)
    /\ UNCHANGED <<orders, history, notifications, notification_types, served>>
    /\ UNCHANGED <<locationVars, ratings, messages>>

\* SupportTicketUpdateSerializer.update, instance.save(update_fields=
\* ["closed_at"]): now for a closed status, null for a re-opened ticket.
TicketUpdateStamp(r) ==
    /\ pc[r] = "ticket-saved"
    /\ tickets' = [tickets EXCEPT ![req[r].order].closed_at =
                        IF req[r].instance.status \in closed_codes
                        THEN Now ELSE 0]
    /\ Respond(r, 200)
    /\ UNCHANGED <<orders, history, notifications, notification_types, served>>
    /\ UNCHANGED <<locationVars, ratings, messages>>

\* A validation in which every flag is fine, whoever posts.
MessageAlwaysValid(u, is_internal) == TRUE

\* SupportMessageCreateSerializer.validate_is_internal
MessageIsValid(u, is_internal) == is_internal => IsOperator(u)

\* SupportMessageListCreateView._has_access
HasAccess(u, ticket) ==
    \/ IsOperator(u)
    \/ ticket.author = u
    \/ ticket.assigned_to = u

\* CreateAPIView.create of SupportMessageListCreateView up to the INSERT of
\* the message: is_valid, get_ticket, serializer.save(ticket, author).
MessagePost(r, u, t, is_internal) ==
    /\ pc[r] = "idle"
    /\ served < MaxRequests
    /\ served' = served + 1
    /\ LET q == [NoReq EXCEPT !.view = "ticket-message", !.user = u,
                              !.order = t]
       IN  \/ /\ ~MessageIsValid(u, is_internal)
              /\ pc' = [pc EXCEPT ![r] = "done"]
              /\ req' = [req EXCEPT ![r] = [q EXCEPT !.code = 400]]
              /\ UNCHANGED messages
           \/ /\ MessageIsValid(u, is_internal)
              /\ t \notin 1..Len(tickets)
              /\ pc' = [pc EXCEPT ![r] = "done"]
              /\ req' = [req EXCEPT ![r] = [q EXCEPT !.code = 404]]
              /\ UNCHANGED messages
           \/ /\ MessageIsValid(u, is_internal)
              /\ t \in 1..Len(tickets)
              /\ ~HasAccess(u, tickets[t])
              /\ pc' = [pc EXCEPT ![r] = "done"]
              /\ req' = [req EXCEPT ![r] = [q EXCEPT !.code = 403]]
              /\ UNCHANGED messages
           \/ /\ MessageIsValid(u, is_internal)
              /\ t \in 1..Len(tickets)
              /\ HasAccess(u, tickets[t])
              /\ messages' = Append(messages,
                    [ticket |-> t, author |-> u, is_internal |-> is_internal,
                     created_at |-> Now])
              /\ pc' = [pc EXCEPT ![r] = "message-saved"]
              /\ req' = [req EXCEPT ![r] =
                            [q EXCEPT !.instance = tickets[t],
                                      !.data = [created_at |-> Now]]]
    /\ UNCHANGED <<orders, history, notifications, notification_types>>
    /\ UNCHANGED <<locationVars, ratings, tickets>>

\* perform_create: the loaded ticket is OPEN, the poster is not its author
\* and the table has the IN_PROGRESS row.
AdvancesTicket(u, ticket) ==
    /\ ticket.status = "OPEN"
    /\ u # ticket.author
    /\ "IN_PROGRESS" \in TicketStatuses

\* An assignment that looks at the user type alone.
TakesTicketByType(u, ticket) ==
    ticket.assigned_to = None /\ user_type[u] = "OPERATOR"

\* perform_create: the loaded ticket has no assignee and the poster is
\* staff or an operator.
TakesTicket(u, ticket) ==
    ticket.assigned_to = None /\ IsOperator(u)

\* perform_create after the INSERT: ticket.save(update_fields=[...]) writes
\* last_message_at and, decided on the ticket as get_ticket loaded it,
\* status and assigned_to.
MessageTouch(r) ==
    /\ pc[r] = "message-saved"
    /\ LET u == req[r].user
           ticket == req[r].instance
       IN  tickets' = [tickets EXCEPT ![req[r].order] =
                [@ EXCEPT
                    !.last_message_at = req[r].data.created_at,
                    !.status =
                        IF AdvancesTicket(u, ticket)
                        THEN "IN_PROGRESS" ELSE @,
                    !.assigned_to =
                        IF TakesTicket(u, ticket) THEN u ELSE @]]
    /\ Respond(r, 201)
    /\ UNCHANGED <<orders, history, notifications, notification_types, served>>
    /\ UNCHANGED <<locationVars, ratings, messages>>

\* One ticket of client1 with its first message, as perform_create left it.
InitTickets ==
    /\ orders = <<DemoOrder>>
    /\ history = <<>>
    /\ notifications = <<>>
    /\ notification_types = NotificationTypeTable
    /\ RequestsIdle
    /\ LocationIdle
    /\ ratings = <<>>
    /\ tickets = <<NewTicket("client1", "NORMAL", 1)>>
    /\ messages = <<[ticket |-> 1, author |-> "client1",
                     is_internal |-> FALSE, created_at |-> 1]>>

NextTickets ==
    \/ \E r \in Reqs, u \in Supporters, p \in {"NORMAL", "HIGH"} :
            TicketCreate(r, u, p)
    \/ \E r \in Reqs, u \in Supporters, t \in TicketIds, d \in TicketBodies :
            TicketUpdateBegin(r, u, t, d)
    \/ \E r \in Reqs : TicketUpdateSave(r)
    \/ \E r \in Reqs : TicketUpdateStamp(r)
    \/ \E r \in Reqs, u \in Supporters, t \in TicketIds, i \in BOOLEAN :
            MessagePost(r, u, t, i)
    \/ \E r \in Reqs : MessageTouch(r)
    \/ \E r \in Reqs : Finish(r)

SpecTickets == InitTickets /\ [][NextTickets]_vars

\* --------------------------------------------- claims on support tickets
\* A ticket update or a message post on ticket t is between its first and its
\* last write.
TicketBusy(t) ==
    \E r \in Reqs : pc[r] \notin {"idle", "done"} /\ req[r].order = t

\* C19: in every state reached through ticket creation, ticket updates and
\* message posts, a ticket's closed_at is non-null exactly if its status is
\* RESOLVED or CLOSED (stated for the tickets no request is working on, so
\* the moment between the two saves of an update does not count).
C19_ClosedAtIffClosed ==
    \A t \in 1..Len(tickets) :
        ~TicketBusy(t)
        => (tickets[t].closed_at # 0 <=> tickets[t].status \in closed_codes)

\* Slot r does the ticket save of a message post in this step.
TouchesTicket(r) ==
    /\ pc[r] = "message-saved"
    /\ pc'[r] = "done"

PostRefused(r) ==
    /\ pc[r] = "idle"
    /\ pc'[r] = "done"
    /\ req'[r].view = "ticket-message"
    /\ req'[r].code = 400

\* C21: a message post with is_internal set by a poster who is neither an
\* operator nor staff fails (the only validation error of a post), creates
\* no message and leaves the ticket as it is; hence every internal message
\* there is was written by an operator or a staff account.
C21_InternalOnlyByOperators ==
    [][/\ \A r \in Reqs :
            PostRefused(r)
            => /\ ~IsOperator(req'[r].user)
               /\ UNCHANGED <<tickets, messages>>
       /\ \A m \in 1..Len(messages') :
            messages'[m].is_internal => IsOperator(messages'[m].author)]_vars

\* C21, witness: the author client1 asked for an internal note on their own
\* ticket and was refused; the ticket has its first message only.
C21_Witness ==
    /\ \E r \in Reqs :
        /\ pc[r] = "done"
        /\ req[r].view = "ticket-message"
        /\ req[r].user = "client1"
        /\ req[r].order = 1
        /\ req[r].code = 400
    /\ Len(messages) = 1
    /\ tickets[1].last_message_at = 1

\* C24: a message post changes a ticket's status or assignee only when the
\* ticket is OPEN and the poster is not its author: posted by the author, or
\* to a ticket that is IN_PROGRESS, RESOLVED or CLOSED, it leaves status and
\* assigned_to as they are (stated for a post no other request interfered
\* with: the row is still as the post loaded it).
C24_PostFrame ==
    [][\A r \in Reqs :
        (/\ TouchesTicket(r)
         /\ tickets[req[r].order] = req[r].instance
         /\ \/ req[r].user = req[r].instance.author
            \/ req[r].instance.status # "OPEN")
        => /\ tickets'[req[r].order].status = tickets[req[r].order].status
           /\ tickets'[req[r].order].assigned_to =
                    tickets[req[r].order].assigned_to]_vars

\* Slot r writes the ticket row in this step of a ticket update.
WritesTicket(r) ==
    /\ pc[r] \in {"ticket-loaded", "ticket-saved"}
    /\ pc'[r] # pc[r]

\* C26: a ticket update by a user who is neither staff nor an operator never
\* changes a ticket's status or assignee, and an assignee is always an
\* operator or a staff account.
C26_OnlyOperatorsChange ==
    [][/\ \A r \in Reqs :
            (WritesTicket(r) /\ ~IsOperator(req[r].user))
            => \A t \in 1..Len(tickets) :
                    /\ tickets'[t].status = tickets[t].status
                    /\ tickets'[t].assigned_to = tickets[t].assigned_to
       /\ \A t \in 1..Len(tickets') :
            tickets'[t].assigned_to # None
            => IsOperator(tickets'[t].assigned_to)]_vars

\* ------------------------------------------- claims on update_location
\* The caller of the update slot r takes in this step is a driver no truck
\* is assigned to.
DriverWithoutTruck(r) ==
    /\ user_type[req'[r].user] = "DRIVER"
    /\ \A t \in Fleet : truck_driver[t] # req'[r].user

\* The update slot r takes in this step is stored: the coordinate and the
\* timestamp of a truck of the caller change, no other truck, no order, no
\* group and no connection does.
StoresOwnTruckOnly(r) ==
    /\ user_type[req'[r].user] = "DRIVER"
    /\ \E t \in Fleet :
        /\ truck_driver[t] = req'[r].user
        /\ trucks'[t].known
        /\ trucks'[t].lat = req'[r].data.latitude
        /\ trucks'[t].lon = req'[r].data.longitude
        /\ \A other \in Fleet \ {t} : trucks'[other] = trucks[other]
    /\ UNCHANGED <<orders, groups, conn>>

\* C27 as stated: a location update by a caller who is not a driver is
\* refused with 403, one by a driver without a truck with 404, both without
\* any change of a truck or anything published; an accepted update changes
\* the coordinate and timestamp of the caller's own truck and nothing else.
C27_RefusedByRoleOrTruck ==
    [][\A r \in Reqs :
        AnswersLocation(r)
        => /\ user_type[req'[r].user] # "DRIVER"
                => (EndsWithoutEffect(r) /\ req'[r].code = 403)
           /\ DriverWithoutTruck(r)
                => (EndsWithoutEffect(r) /\ req'[r].code = 404)
           /\ pc'[r] # "done" => StoresOwnTruckOnly(r)
           /\ UNCHANGED orders]_vars

\* C27, amended: as above, but a driver without a truck is refused with 404
\* only if the coordinate is in range; out of range the refusal is the
\* validation error (400), which comes before the look-up of the truck.
C27_RefusedByRoleCoordinateOrTruck ==
    [][\A r \in Reqs :
        AnswersLocation(r)
        => /\ user_type[req'[r].user] # "DRIVER"
                => (EndsWithoutEffect(r) /\ req'[r].code = 403)
           /\ DriverWithoutTruck(r)
                => /\ EndsWithoutEffect(r)
                   /\ req'[r].code = IF OutOfRange(r) THEN 400 ELSE 404
           /\ pc'[r] # "done" => StoresOwnTruckOnly(r)
           /\ UNCHANGED orders]_vars

\* C27, witness: driver2, who has no truck, sent a coordinate in range and
\* got 404, and no truck has a coordinate.
C27_Witness ==
    /\ \E r \in Reqs :
        /\ pc[r] = "done"
        /\ req[r].view = "location-update"
        /\ req[r].user = "driver2"
        /\ req[r].data.latitude = 55
        /\ req[r].data.longitude = 37
        /\ req[r].code = 404
    /\ \A t \in Fleet : ~trucks[t].known

\* ================================== location stream and reassignment
\* LocationConsumer.receive: an inbound frame of the client is ignored.
Receive(c) ==
    /\ conn[c].phase = "open"
    /\ UNCHANGED vars

\* Callers of update_location: a client, the driver of t1 and a driver
\* without a truck.
StreamCallers == {"client1", "driver1", "driver2"}

\* Two latitudes in range, so that two updates can be told apart, and one
\* out of range.
StreamLatitudes == {55, 56, 91}

\* Who opens a connection: nobody, the driver of t1, a driver without truck.
StreamSubscribers == {None, "driver1", "driver2"}

\* The order, an id no order has, the demo truck and an id no truck has.
StreamTargets ==
    {OrderGroup(1), OrderGroup(3), TruckGroup("t1"), TruckGroup("t9")}

\* Callers of update-status on the order.
Dispatchers == {"operator1", "driver1", "driver2"}

\* Bodies of update-status: the order goes to the other truck, or a status
\* that is no choice.
ReassignBodies ==
    {[NoData EXCEPT !.tow_truck = "t2"], [NoData EXCEPT !.status = "BOGUS"]}

\* One order of client1 on the demo truck, waiting or assigned; no coordinate
\* is known and nobody is connected.
InitStream ==
    /\ \E s \in {"PENDING", "ASSIGNED"} :
            orders = <<[DemoOrder EXCEPT !.tow_truck = "t1", !.status = s]>>
    /\ history = <<>>
    /\ notifications = <<>>
    /\ notification_types \in {NotificationTypeTable, {}}
    /\ RequestsIdle
    /\ LocationIdle
    /\ SupportEmpty

NextStream ==
    \/ \E r \in Reqs, u \in StreamCallers, lat \in StreamLatitudes :
            LocationUpdate(r, u, lat, 37)
    \/ \E r \in Reqs : LocationPublish(r)
    \/ \E c \in Conns, u \in StreamSubscribers, g \in StreamTargets :
            Connect(c, u, g)
    \/ \E c \in Conns : ConnectJoin(c)
    \/ \E c \in Conns : Receive(c)
    \/ \E c \in Conns : Disconnect(c)
    \/ \E r \in Reqs, u \in Dispatchers, d \in ReassignBodies :
            UpdateStatusBegin(r, u, 1, d)
    \/ \E r \in Reqs : UpdateStatusLoad(r)
    \/ \E r \in Reqs : UpdateStatusSave(r)
    \/ \E r \in Reqs : UpdateStatusHistory(r)
    \/ \E r \in Reqs : UpdateStatusNotify(r)
    \/ \E r \in Reqs : Finish(r)

SpecStream == InitStream /\ [][NextStream]_vars

\* ------------------------------------------ claims on the live stream
\* The last message connection c has received.
LastReceived(c) == conn[c].received[Len(conn[c].received)]

\* C28: when location updates of one truck overlap, then once they have all
\* finished the last update delivered to a subscriber of the truck's group
\* carries the coordinate that is stored on the truck.
C28_LastDeliveredIsStored ==
    \A c \in Conns, t \in Fleet :
        (/\ conn[c].phase = "open"
         /\ conn[c].group = TruckGroup(t)
         /\ ~InFlight(t)
         /\ conn[c].received # <<>>
         /\ LastReceived(c).type = "update")
        => /\ LastReceived(c).location.lat = trucks[t].lat
           /\ LastReceived(c).location.lon = trucks[t].lon

\* C29: at every moment every member of an order's group belongs to a user
\* who is authorized for that order now (staff, the order's client or the
\* driver of the truck the order is on now).
C29_MembersStayAuthorized ==
    \A c \in Conns, o \in 1..Len(orders) :
        <<OrderGroup(o), c>> \in groups
        => \/ is_staff[conn[c].user]
           \/ orders[o].client = conn[c].user
           \/ /\ orders[o].tow_truck # None
              /\ truck_driver[orders[o].tow_truck] = conn[c].user

\* C30: group membership follows the life of the connection.  A connection
\* is in at most one group, the one it named, and only while it is open
\* (after the accepted connect, before the disconnect); a connection that is
\* not open is in no group and no step delivers anything to it.
C30_MembershipFollowsLifecycle ==
    [][\A c \in Conns :
        /\ \A g \in ConnTargets :
            <<g, c>> \in groups'
            => (conn'[c].phase = "open" /\ conn'[c].group = g)
        /\ conn[c].phase = "closed"
            => /\ conn'[c] = conn[c]
               /\ \A g \in ConnTargets : <<g, c>> \notin groups'
        /\ conn'[c].phase # "open"
            => \A g \in ConnTargets : <<g, c>> \notin groups']_vars

\* C30, witness: the connection followed truck t1, received the first update
\* and was closed by its client; the truck has a later coordinate, whose
\* update has been published, and the connection did not get it.
C30_Witness ==
    \E c \in Conns :
        /\ conn[c].phase = "closed"
        /\ conn[c].code = 1000
        /\ conn[c].group = TruckGroup("t1")
        /\ Len(conn[c].received) = 1
        /\ conn[c].received[1].type = "update"
        /\ conn[c].received[1].location.stamp = 1
        /\ trucks["t1"].stamp = 2
        /\ \A r \in Reqs : pc[r] = "done" /\ req[r].code = 200

\* ============================================================= pricing
\* Money, rates and multipliers are decimals with two places and are kept
\* as integers counted in hundredths: 250000 is 2500.00, 115 is 1.15 and a
\* distance of 1000 is 10.00 km.

\* WEATHER_MULTIPLIERS
WEATHER_MULTIPLIERS ==
    [c \in {"clear", "partly-cloudy", "cloudy", "overcast", "rain",
            "drizzle", "light-rain", "showers", "snow", "light-snow",
            "wet-snow", "storm", "thunderstorm"} |->
        CASE c \in {"clear", "partly-cloudy"} -> 100
          [] c = "cloudy" -> 105
          [] c = "overcast" -> 107
          [] c \in {"rain", "light-snow"} -> 115
          [] c = "drizzle" -> 110
          [] c = "light-rain" -> 112
          [] c = "showers" -> 118
          [] c = "snow" -> 120
          [] c = "wet-snow" -> 125
          [] c = "storm" -> 130
          [] OTHER -> 135]

\* The VehicleType table: the first row of create_sample_data (2500.00 and
\* 120.00 per km) and a row whose rate has kopecks (120.50 per km).
VehicleTypes ==
    [vt1 |-> [base_price |-> 250000, per_km_rate |-> 12000],
     vt2 |-> [base_price |-> 250000, per_km_rate |-> 12050]]

\* Vehicle type ids a request may name: the rows and an id none has.
VehicleTypeIds == DOMAIN VehicleTypes \cup {"vt9"}

\* Distances a request may carry: 0.00 (below min_value), 0.20 and 10.00 km.
Distances == {0, 20, 1000}

\* No payload: fetch_weather returns None, or the request of a provider
\* raised a RequestException.
NoWeather ==
    [kind |-> "none", condition |-> None, prec_type |-> 0, weather_code |-> 0]

\* The empty dict.
EmptyWeather == [NoWeather EXCEPT !.kind = "empty"]

\* What the Yandex informer may answer: a fact with a condition of the
\* table or one the table does not have (hail), a fact with a precipitation
\* type only, an empty object; or the request fails.
YandexReplies ==
    {[NoWeather EXCEPT !.kind = "fact", !.condition = c] :
        c \in DOMAIN WEATHER_MULTIPLIERS \cup {"hail"}}
    \cup {[NoWeather EXCEPT !.kind = "fact", !.condition = "hail",
                           !.prec_type = p] : p \in 1..3}
    \cup {EmptyWeather, NoWeather}

\* What Open-Meteo may answer: current.weather_code 0 (clear sky), 63
\* (moderate rain) or 95 (thunderstorm); or the request fails.
OpenMeteoReplies ==
    {[NoWeather EXCEPT !.kind = "current", !.weather_code = k] :
        k \in {0, 63, 95}}
    \cup {NoWeather}

\* A multiplier for foul weather whatever the payload is.
StormMultiplier(weather) == 135

\* get_weather_multiplier: weather.get("fact", {}).get("condition") and
\* .get("prec_type"); an Open-Meteo payload has no "fact".
get_weather_multiplier(weather) ==
    IF weather.kind \in {"none", "empty"}
    THEN 100
    ELSE LET condition ==
                IF weather.kind = "fact" THEN weather.condition ELSE None
             prec_type ==
                IF weather.kind = "fact" THEN weather.prec_type ELSE 0
         IN  IF condition \in DOMAIN WEATHER_MULTIPLIERS
             THEN WEATHER_MULTIPLIERS[condition]
             ELSE CASE prec_type = 1 -> 112
                    [] prec_type = 2 -> 120
                    [] prec_type = 3 -> 118
                    [] OTHER -> 100

\* base_price + per_km_rate * distance_km, in units of 0.0001.
Subtotal(vt, distance_km) ==
    VehicleTypes[vt].base_price * 100
        + VehicleTypes[vt].per_km_rate * distance_km

\* A quantize that drops the digits after the second place.
QuantizeDown(subtotal, multiplier) ==
    (subtotal \div 10000) * multiplier
        + ((subtotal % 10000) * multiplier) \div 10000

\* (subtotal * multiplier).quantize(Decimal("0.01"), rounding=ROUND_HALF_UP),
\* in hundredths; the product is taken in two parts to stay within 32 bits.
Quantize(subtotal, multiplier) ==
    (subtotal \div 10000) * multiplier
        + ((subtotal % 10000) * multiplier + 5000) \div 10000

\* calculate_price after fetch_weather: total and the breakdown's multiplier
\* and weather (weather_payload or {}).
calculate_price(vt, distance_km, weather_payload) ==
    LET multiplier == get_weather_multiplier(weather_payload)
    IN  [price |-> Quantize(Subtotal(vt, distance_km), multiplier),
         multiplier |-> multiplier,
         weather |-> IF weather_payload.kind = "none"
                     THEN EmptyWeather ELSE weather_payload]

\* The data of a price estimate: the validated input, the setting
\* YANDEX_WEATHER_API_KEY as fetch_weather reads it, the providers queried,
\* the one whose JSON fetch_weather returned, and the result.
EstimateData(vt, distance_km, api_key) ==
    [vehicle_type |-> vt, distance_km |-> distance_km, api_key |-> api_key,
     queried |-> <<>>, answered |-> None, price |-> 0, multiplier |-> 0,
     weather |-> NoWeather]

\* The response of PriceEstimateView: price and breakdown.
Priced(r, queried, weather_payload) ==
    LET d == req[r].data
        result == calculate_price(d.vehicle_type, d.distance_km,
                                  weather_payload)
    IN  /\ pc' = [pc EXCEPT ![r] = "done"]
        /\ req' = [req EXCEPT
                    ![r].data.queried = queried,
                    ![r].data.answered =
                        IF weather_payload = NoWeather
                        THEN None ELSE queried[Len(queried)],
                    ![r].data.price = result.price,
                    ![r].data.multiplier = result.multiplier,
                    ![r].data.weather = result.weather,
                    ![r].code = 200]

\* PriceEstimateView.post up to fetch_weather's first request:
\* PriceEstimateRequestSerializer.is_valid, then the API key decides which
\* provider is asked first.
EstimateBegin(r, u, vt, distance_km, lat, api_key) ==
    /\ pc[r] = "idle"
    /\ served < MaxRequests
    /\ served' = served + 1
    /\ LET q == [NoReq EXCEPT !.view = "price-estimate", !.user = u]
           valid == /\ vt \in DOMAIN VehicleTypes
                    /\ distance_km >= 1
                    /\ ValidCoordinate(lat, 37)
       IN  \/ /\ ~valid
              /\ pc' = [pc EXCEPT ![r] = "done"]
              /\ req' = [req EXCEPT ![r] = [q EXCEPT !.code = 400]]
           \/ /\ valid
              /\ api_key
              /\ pc' = [pc EXCEPT ![r] = "yandex"]
              /\ req' = [req EXCEPT ![r] =
                    [q EXCEPT !.data = EstimateData(vt, distance_km, api_key)]]
           \/ /\ valid
              /\ ~api_key
              /\ pc' = [pc EXCEPT ![r] = "open-meteo"]
              /\ req' = [req EXCEPT ![r] =
                    [q EXCEPT !.data = EstimateData(vt, distance_km, api_key)]]
    /\ UNCHANGED <<orders, history, notifications, notification_types>>
    /\ UNCHANGED <<locationVars, supportVars>>

\* fetch_weather, the request to Yandex: its JSON is returned and priced, a
\* RequestException is logged and the fallback is next.
WeatherPrimary(r, reply) ==
    /\ pc[r] = "yandex"
    /\ \/ /\ reply = NoWeather
          /\ pc' = [pc EXCEPT ![r] = "open-meteo"]
          /\ req' = [req EXCEPT ![r].data.queried = <<"yandex">>]
       \/ /\ reply # NoWeather
          /\ Priced(r, <<"yandex">>, reply)
    /\ UNCHANGED <<orders, history, notifications, notification_types, served>>
    /\ UNCHANGED <<locationVars, supportVars>>

\* fetch_weather, the request to Open-Meteo: its JSON is returned, a
\* RequestException gives None; calculate_price goes on with either.
WeatherFallback(r, reply) ==
    /\ pc[r] = "open-meteo"
    /\ Priced(r, Append(req[r].data.queried, "open-meteo"), reply)
    /\ UNCHANGED <<orders, history, notifications, notification_types, served>>
    /\ UNCHANGED <<locationVars, supportVars>>

\* The database of create_sample_data; no request is in progress.
InitPricing ==
    /\ orders = <<DemoOrder>>
    /\ history = <<>>
    /\ notifications = <<>>
    /\ notification_types = NotificationTypeTable
    /\ RequestsIdle
    /\ LocationIdle
    /\ SupportEmpty

NextPricing ==
    \/ \E r \in Reqs, vt \in VehicleTypeIds, d \in Distances,
          lat \in {55, 91}, k \in BOOLEAN :
            EstimateBegin(r, "client1", vt, d, lat, k)
    \/ \E r \in Reqs, w \in YandexReplies : WeatherPrimary(r, w)
    \/ \E r \in Reqs, w \in OpenMeteoReplies : WeatherFallback(r, w)
    \/ \E r \in Reqs : Finish(r)

SpecPricing == InitPricing /\ [][NextPricing]_vars

\* ---------------------------------------------------- claims on pricing
\* Slot r holds the answer of a price estimate.
Estimated(r) ==
    /\ pc[r] = "done"
    /\ req[r].view = "price-estimate"
    /\ req[r].code = 200

\* p (in hundredths) is x / 10000 rounded half-up to two places, for
\* x = whole * 10000 + rest counted in units of 0.000001.
IsHalfUp(p, whole, rest) ==
    /\ (p - whole) * 10000 - 5000 <= rest
    /\ rest < (p - whole) * 10000 + 5000

\* C22: for every vehicle type, distance and multiplier m the estimated
\* price is (base_price + per_km_rate * distance) * m rounded half-up to two
\* places; base 2500, rate 120 and 10 km give 3700.00 for m = 1.00 and
\* 4255.00 for m = 1.15.
C22_PriceIsRoundedHalfUp ==
    \A r \in Reqs :
        Estimated(r)
        => LET d == req[r].data
               vt == VehicleTypes[d.vehicle_type]
               s == vt.base_price * 100 + vt.per_km_rate * d.distance_km
               m == d.multiplier
           IN  /\ IsHalfUp(d.price, (s \div 10000) * m, (s % 10000) * m)
               /\ (/\ vt.base_price = 250000
                   /\ vt.per_km_rate = 12000
                   /\ d.distance_km = 1000)
                  => /\ m = 100 => d.price = 370000
                     /\ m = 115 => d.price = 425500

\* C22, witness: 2500.00 + 120.50 * 0.20 = 2524.10 under a cloudy sky (1.05)
\* is 2650.305, estimated as 2650.31.
C22_Witness ==
    \E r \in Reqs :
        /\ Estimated(r)
        /\ req[r].data.vehicle_type = "vt2"
        /\ req[r].data.distance_km = 20
        /\ req[r].data.multiplier = 105
        /\ req[r].data.price = 265031

\* C23: pricing never fails because of a weather outage: a validated
\* estimate always ends with a price, and when no provider answered (both
\* failed, or the only one asked did) the multiplier is 1.00, the breakdown's
\* weather is empty and the price is the subtotal rounded to two places.
C23_OutageGivesPlainPrice ==
    [][\A r \in Reqs :
        (pc[r] \in {"yandex", "open-meteo"} /\ pc'[r] = "done")
        => /\ req'[r].code = 200
           /\ req'[r].data.answered = None
              => LET d == req'[r].data
                     vt == VehicleTypes[d.vehicle_type]
                     s == vt.base_price * 100 + vt.per_km_rate * d.distance_km
                 IN  /\ d.multiplier = 100
                     /\ d.weather = EmptyWeather
                     /\ d.price * 100 - 50 <= s
                     /\ s < d.price * 100 + 50]_vars

\* C23, witness: with an API key set both Yandex and Open-Meteo failed and
\* the estimate for 10 km is 3700.00.
C23_Witness ==
    \E r \in Reqs :
        /\ Estimated(r)
        /\ req[r].data.api_key
        /\ req[r].data.queried = <<"yandex", "open-meteo">>
        /\ req[r].data.answered = None
        /\ req[r].data.vehicle_type = "vt1"
        /\ req[r].data.distance_km = 1000
        /\ req[r].data.price = 370000

\* The condition a payload reports, in the words of the multiplier table:
\* the fact's condition of Yandex, the WMO weather code of Open-Meteo
\* (OPEN_METEO_CODES: 0 clear sky, 63 moderate rain, 95 thunderstorm).
Reported(weather) ==
    CASE weather.kind = "fact" -> weather.condition
      [] weather.kind = "current" /\ weather.weather_code = 0 -> "clear"
      [] weather.kind = "current" /\ weather.weather_code = 63 -> "rain"
      [] weather.kind = "current" /\ weather.weather_code = 95 -> "thunderstorm"
      [] OTHER -> None

\* The table's entry for a condition, 1.00 for one it does not have.
TableEntry(c) ==
    IF c \in DOMAIN WEATHER_MULTIPLIERS THEN WEATHER_MULTIPLIERS[c] ELSE 100

\* C25: the fallback provider is asked only when the primary has no
\* credentials or its request failed, and whichever provider answered, the
\* multiplier is the table's entry for the condition it reported (1.15 for
\* rain, 1.00 for a condition the table does not have).
C25_SameTableForBothProviders ==
    \A r \in Reqs :
        Estimated(r)
        => LET d == req[r].data
           IN  /\ d.queried \in
                    IF d.api_key
                    THEN {<<"yandex">>, <<"yandex", "open-meteo">>}
                    ELSE {<<"open-meteo">>}
               /\ d.queried = <<"yandex", "open-meteo">>
                    => d.answered # "yandex"
               /\ d.answered # None
                    => d.multiplier = TableEntry(Reported(d.weather))

====
